---- MODULE Spec2Model ----
(***************************************************************************)
(* State-machine model of the two trigger-bearing Soroban contracts of     *)
(* stellar-guard:                                                          *)
(*   contracts/liquidation/src/lib.rs   (LiquidationProtection)            *)
(*   contracts/stop_loss/src/lib.rs     (StopLossContract)                 *)
(* A contract call that panics is rolled back by the host: the persisted   *)
(* state is exactly what it was before the call.  Every call records its   *)
(* outcome in liqCall / slCall; an oracle or ledger step resets them.      *)
(***************************************************************************)
EXTENDS Integers, Sequences, FiniteSets, TLC

\* ------------------------------------------------------------------ bounds
MaxLoans == 1
MaxUserLoans == 1
MaxCollateral == 1500
MaxOrders == 1

\* ------------------------------------------------------- program constants
LIQUIDATION_BONUS_BPS == 500
MIN_ORDER_AMOUNT == 1000000
MAX_ORDERS_PER_USER == 100
MAX_PRICE_AGE == 600
MAX_PERSISTENT_TTL == 31536000
LIQUIDATION_MAX_PERSISTENT_TTL == 535680

\* ------------------------------------------------------------- input sets
\* Option<T>: None is the empty tuple, Some(x) the one-element tuple
None == <<>>
Some(x) == <<x>>
Unwrap(o) == o[1]
Nobody == "-"
Users == {"alice", "bob"}
Oracles == {"oracleA"}
Times == {0, 601}
\* ledger times that put a quote at the ages 0, 600 and 601
StaleTimes == {0, 1, 601}
LoanAssets == {[kind |-> "Stellar", id |-> "XLM"], [kind |-> "Crypto", id |-> "USDC"]}
LoanPairs == {<<[kind |-> "Stellar", id |-> "XLM"], [kind |-> "Crypto", id |-> "USDC"]>>}
\* answers the oracle may give for the collateral and for the borrowed asset
CollateralPriceAnswers == {None, Some(5), Some(7), Some(10)}
BorrowedPriceAnswers == {None, Some(0), Some(10)}
CollateralAmounts == {1000}
BorrowedAmounts == {500}
Thresholds == {10000, 14000}
AddAmounts == {500}
RepayAmounts == {250, 500}
TwapPairs == {<<None, Some(10)>>, <<Some(10), Some(0)>>, <<Some(10), Some(10)>>}
PeriodsArgs == {2, 5}
LoanIds == 1..MaxLoans

Symbols == {"BTC"}
TriggerSymbols == {"ETH"}
SpotPrices == {100, 101, 200}
OrderAmounts == {999999, 1000000}
StopInputs == {100}
TakeProfitInputs == {200}
TrailingPercents == {0, 50, 51}
StopPercentages == {5, 150}
CreateTwapPeriods == {2, 3, 20, 21}
CheckTwapPeriods == {2, 5}
CreateTwapPrices == {None, Some(100)}
TwapPrices == {None, Some(100), Some(101), Some(200)}
CrossPrices == {None, Some(3)}
Admins == {"admin"}
FeeRecipients == {"treasury"}
OrderIds == 1..MaxOrders
\* every symbol the oracle quotes
QuotedSymbols == Symbols \cup TriggerSymbols

VARIABLES
  now,                \* env.ledger().timestamp()
  lastprice,          \* oracle answer of lastprice(asset), None when unavailable
  liqOracle,          \* instance storage DataKey::OracleAddress (None when unset)
  loanCounter,        \* persistent DataKey::LoanCounter (absent reads as 0)
  loans,              \* persistent DataKey::Loans : Map<u64, Loan>
  userLoans,          \* persistent DataKey::UserLoans(user) : Vec<u64>
  liquidationRewards, \* persistent DataKey::LiquidationRewards : Map<Address, i128>
  liqCall,            \* the call that produced this state, with its outcome
  liqStreak,          \* successes in the current run of liquidate_position calls on one id
  quote,              \* oracle answer of lastprice(Asset::Other(symbol)): Option<PriceData>
  slConfig,           \* instance storage Admin, OracleAddress, ProtocolFeeRecipient (None when unset)
  orderCounter,       \* persistent DataKey::OrderCounter (absent reads as 0)
  orders,             \* persistent DataKey::Orders : Map<u64, StopLossOrder>
  userOrders,         \* persistent DataKey::UserOrders(user) : Vec<u64>
  slCall,             \* the call that produced this state, with its outcome
  slStreak            \* executions in the current run of check_and_execute(_twap) calls on one id

liqStore == <<liqOracle, loanCounter, loans, userLoans, liquidationRewards>>
liqVars == <<now, lastprice, liqOracle, loanCounter, loans, userLoans,
             liquidationRewards, liqCall, liqStreak>>
slStore == <<slConfig, orderCounter, orders, userOrders>>
slVars == <<quote, slConfig, orderCounter, orders, userOrders, slCall, slStreak>>
vars == <<liqVars, slVars>>

\* ------------------------------------------------------------ arithmetic
Abs(x) == IF x < 0 THEN -x ELSE x

\* Rust's integer division truncates toward zero; b # 0.
TruncDiv(a, b) ==
  LET q == Abs(a) \div Abs(b)
  IN IF (a < 0) # (b < 0) THEN -q ELSE q

\* Map::get(..).unwrap_or(0) on the reward ledger
RewardOf(rewards, who) == IF who \in DOMAIN rewards THEN rewards[who] ELSE 0

\* Map::set
MapSet(m, k, v) == [x \in DOMAIN m \cup {k} |-> IF x = k THEN v ELSE m[x]]

EmptyMap == [x \in {} |-> 0]

\* Asset handed to the oracle client for an AssetType
OracleAsset(a) ==
  IF a.kind = "Crypto" THEN [kind |-> "Other", id |-> a.id]
  ELSE [kind |-> "Stellar", id |-> a.id]

OracleAssets == {OracleAsset(a) : a \in LoanAssets}

AnswersFor(a) ==
  IF a.kind = "Stellar" THEN CollateralPriceAnswers ELSE BorrowedPriceAnswers

\* client.lastprice(asset): Option<PriceData>, reduced to the price
LastPrice(a) == lastprice[OracleAsset(a)]

\* --------------------------------------------------- call outcome records
LiqOutcome(op, id, who, ok, ret, yes) ==
  [op |-> op, id |-> id, who |-> who, ok |-> ok, ret |-> ret, yes |-> yes]

NoLiqCall == LiqOutcome("none", 0, Nobody, TRUE, 0, FALSE)
NoStreak == [id |-> 0, wins |-> 0]

\* Calls are serialized by the host: a call starts when no outcome is pending.
LiqIdle == liqCall = NoLiqCall

\* A panicking call: the host rolls the whole call back.
LiqPanic(op, id, who) ==
  /\ UNCHANGED liqStore
  /\ liqCall' = LiqOutcome(op, id, who, FALSE, 0, FALSE)

\* ------------------------------------------------------------------ helpers
get_next_loan_id(counter) == counter + 1

save_loan(ls, loan_id, loan) == MapSet(ls, loan_id, loan)

add_user_loan(ul, user, loan_id) == [ul EXCEPT ![user] = Append(@, loan_id)]

\* add_liquidation_reward crediting half of the amount
add_liquidation_reward_halved(rewards, liquidator, amount) ==
  MapSet(rewards, liquidator, RewardOf(rewards, liquidator) + TruncDiv(amount, 2))

add_liquidation_reward(rewards, liquidator, amount) ==
  MapSet(rewards, liquidator, RewardOf(rewards, liquidator) + amount)

\* calculate_collateral_ratio with the basis-point scale off by a factor of ten
calculate_collateral_ratio_scale(collateral_asset, collateral_amount, borrowed_asset, borrowed_amount) ==
  LET collateral_price == LastPrice(collateral_asset)
      borrowed_price == LastPrice(borrowed_asset)
  IN IF collateral_price = None \/ borrowed_price = None
     THEN [ok |-> FALSE, val |-> 0]
     ELSE LET collateral_value == Unwrap(collateral_price) * collateral_amount
              borrowed_value == Unwrap(borrowed_price) * borrowed_amount
          IN IF borrowed_value = 0
             THEN [ok |-> FALSE, val |-> 0]
             ELSE [ok |-> TRUE, val |-> TruncDiv(collateral_value * 100000, borrowed_value)]

\* calculate_collateral_ratio: [ok |-> FALSE] when it panics (a price is
\* unavailable, or the borrowed value is zero and the division traps).
calculate_collateral_ratio(collateral_asset, collateral_amount, borrowed_asset, borrowed_amount) ==
  LET collateral_price == LastPrice(collateral_asset)
      borrowed_price == LastPrice(borrowed_asset)
  IN IF collateral_price = None \/ borrowed_price = None
     THEN [ok |-> FALSE, val |-> 0]
     ELSE LET collateral_value == Unwrap(collateral_price) * collateral_amount
              borrowed_value == Unwrap(borrowed_price) * borrowed_amount
          IN IF borrowed_value = 0
             THEN [ok |-> FALSE, val |-> 0]
             ELSE [ok |-> TRUE, val |-> TruncDiv(collateral_value * 10000, borrowed_value)]

\* check_liquidation without the test of the loan's status
check_liquidation_any_status(loan_id) ==
  IF loan_id \notin DOMAIN loans
  THEN [ok |-> FALSE, yes |-> FALSE]
  ELSE
    LET loan == loans[loan_id]
        collateral_price == LastPrice(loan.collateral_asset)
        borrowed_price == LastPrice(loan.borrowed_asset)
    IN IF collateral_price = None \/ borrowed_price = None
       THEN [ok |-> TRUE, yes |-> FALSE]
       ELSE
         LET collateral_value == Unwrap(collateral_price) * loan.collateral_amount
             borrowed_value == Unwrap(borrowed_price) * loan.borrowed_amount
         IN IF borrowed_value = 0
            THEN [ok |-> FALSE, yes |-> FALSE]
            ELSE [ok |-> TRUE,
                  yes |-> TruncDiv(collateral_value * 10000, borrowed_value)
                            <= loan.liquidation_threshold]

\* check_liquidation comparing with < where the code compares with <=
check_liquidation_strict(loan_id) ==
  IF loan_id \notin DOMAIN loans
  THEN [ok |-> FALSE, yes |-> FALSE]
  ELSE
    LET loan == loans[loan_id]
        collateral_price == LastPrice(loan.collateral_asset)
        borrowed_price == LastPrice(loan.borrowed_asset)
    IN IF loan.status # "Active"
       THEN [ok |-> TRUE, yes |-> FALSE]
       ELSE IF collateral_price = None \/ borrowed_price = None
       THEN [ok |-> TRUE, yes |-> FALSE]
       ELSE
         LET collateral_value == Unwrap(collateral_price) * loan.collateral_amount
             borrowed_value == Unwrap(borrowed_price) * loan.borrowed_amount
         IN IF borrowed_value = 0
            THEN [ok |-> FALSE, yes |-> FALSE]
            ELSE [ok |-> TRUE,
                  yes |-> TruncDiv(collateral_value * 10000, borrowed_value)
                            < loan.liquidation_threshold]

\* check_liquidation unwrapping the prices without the is_none test
check_liquidation_unwrap(loan_id) ==
  IF loan_id \notin DOMAIN loans
  THEN [ok |-> FALSE, yes |-> FALSE]
  ELSE
    LET loan == loans[loan_id]
        collateral_price == LastPrice(loan.collateral_asset)
        borrowed_price == LastPrice(loan.borrowed_asset)
    IN IF loan.status # "Active"
       THEN [ok |-> TRUE, yes |-> FALSE]
       ELSE IF collateral_price = None \/ borrowed_price = None
       THEN [ok |-> FALSE, yes |-> FALSE]
       ELSE
         LET collateral_value == Unwrap(collateral_price) * loan.collateral_amount
             borrowed_value == Unwrap(borrowed_price) * loan.borrowed_amount
         IN IF borrowed_value = 0
            THEN [ok |-> FALSE, yes |-> FALSE]
            ELSE [ok |-> TRUE,
                  yes |-> TruncDiv(collateral_value * 10000, borrowed_value)
                            <= loan.liquidation_threshold]

\* check_liquidation answering true whatever the ratio is
check_liquidation_ignore_ratio(loan_id) ==
  IF loan_id \notin DOMAIN loans
  THEN [ok |-> FALSE, yes |-> FALSE]
  ELSE
    LET loan == loans[loan_id]
        collateral_price == LastPrice(loan.collateral_asset)
        borrowed_price == LastPrice(loan.borrowed_asset)
    IN IF loan.status # "Active"
       THEN [ok |-> TRUE, yes |-> FALSE]
       ELSE IF collateral_price = None \/ borrowed_price = None
       THEN [ok |-> TRUE, yes |-> FALSE]
       ELSE
         LET borrowed_value == Unwrap(borrowed_price) * loan.borrowed_amount
         IN IF borrowed_value = 0
            THEN [ok |-> FALSE, yes |-> FALSE]
            ELSE [ok |-> TRUE, yes |-> TRUE]

\* check_liquidation answering false for an id that was never assigned
check_liquidation_unknown_false(loan_id) ==
  IF loan_id \notin DOMAIN loans
  THEN [ok |-> TRUE, yes |-> FALSE]
  ELSE
    LET loan == loans[loan_id]
        collateral_price == LastPrice(loan.collateral_asset)
        borrowed_price == LastPrice(loan.borrowed_asset)
    IN IF loan.status # "Active"
       THEN [ok |-> TRUE, yes |-> FALSE]
       ELSE IF collateral_price = None \/ borrowed_price = None
       THEN [ok |-> TRUE, yes |-> FALSE]
       ELSE
         LET collateral_value == Unwrap(collateral_price) * loan.collateral_amount
             borrowed_value == Unwrap(borrowed_price) * loan.borrowed_amount
         IN IF borrowed_value = 0
            THEN [ok |-> FALSE, yes |-> FALSE]
            ELSE [ok |-> TRUE,
                  yes |-> TruncDiv(collateral_value * 10000, borrowed_value)
                            <= loan.liquidation_threshold]

\* check_liquidation as a function of the current state:
\* [ok |-> FALSE] when it panics, else yes is the returned bool.
check_liquidation_result(loan_id) ==
  IF loan_id \notin DOMAIN loans
  THEN [ok |-> FALSE, yes |-> FALSE]
  ELSE
    LET loan == loans[loan_id]
        collateral_price == LastPrice(loan.collateral_asset)
        borrowed_price == LastPrice(loan.borrowed_asset)
    IN IF loan.status # "Active"
       THEN [ok |-> TRUE, yes |-> FALSE]
       ELSE IF collateral_price = None \/ borrowed_price = None
       THEN [ok |-> TRUE, yes |-> FALSE]
       ELSE
         LET collateral_value == Unwrap(collateral_price) * loan.collateral_amount
             borrowed_value == Unwrap(borrowed_price) * loan.borrowed_amount
         IN IF borrowed_value = 0
            THEN [ok |-> FALSE, yes |-> FALSE]
            ELSE [ok |-> TRUE,
                  yes |-> TruncDiv(collateral_value * 10000, borrowed_value)
                            <= loan.liquidation_threshold]

\* ------------------------------------------------------------ environment
LiqInit ==
  /\ now = 0
  /\ lastprice = [a \in OracleAssets |-> None]
  /\ liqOracle = None
  /\ loanCounter = 0
  /\ loans = EmptyMap
  /\ userLoans = [u \in Users |-> <<>>]
  /\ liquidationRewards = EmptyMap
  /\ liqCall = NoLiqCall
  /\ liqStreak = NoStreak

\* The oracle publishes a new answer for one asset.
OracleLastPrice ==
  \E a \in OracleAssets :
    \E p \in AnswersFor(a) :
      /\ LiqIdle
      /\ lastprice' = [lastprice EXCEPT ![a] = p]
      /\ liqCall' = NoLiqCall
      /\ UNCHANGED <<now, liqStore, liqStreak, slVars>>

\* --------------------------------------------------------------- operations
LiquidationProtection_initialize(oracle_address) ==
  /\ LiqIdle
  /\ liqOracle' = Some(oracle_address)
  /\ loanCounter' = 0
  /\ liquidationRewards' = EmptyMap
  /\ liqCall' = LiqOutcome("initialize", 0, Nobody, TRUE, 0, FALSE)
  /\ liqStreak' = NoStreak
  /\ UNCHANGED <<now, lastprice, loans, userLoans, slVars>>

create_loan(owner, collateral_asset, collateral_amount, borrowed_asset, borrowed_amount, liquidation_threshold) ==
  LET collateral_ratio == calculate_collateral_ratio(collateral_asset, collateral_amount,
                                                     borrowed_asset, borrowed_amount)
      loan_id == get_next_loan_id(loanCounter)
      loan == [owner |-> owner,
               collateral_asset |-> collateral_asset,
               collateral_amount |-> collateral_amount,
               borrowed_asset |-> borrowed_asset,
               borrowed_amount |-> borrowed_amount,
               liquidation_threshold |-> liquidation_threshold,
               created_at |-> now,
               status |-> "Active"]
  IN /\ LiqIdle
     /\ loanCounter < MaxLoans
     /\ Len(userLoans[owner]) < MaxUserLoans
     /\ liqStreak' = NoStreak
     /\ UNCHANGED <<now, lastprice, slVars>>
     /\ IF liquidation_threshold <= 10000
        THEN LiqPanic("create_loan", 0, owner)
        ELSE IF ~collateral_ratio.ok
        THEN LiqPanic("create_loan", 0, owner)
        ELSE IF collateral_ratio.val < liquidation_threshold
        THEN LiqPanic("create_loan", 0, owner)
        ELSE /\ loanCounter' = loan_id
             /\ loans' = save_loan(loans, loan_id, loan)
             /\ userLoans' = add_user_loan(userLoans, owner, loan_id)
             /\ liqCall' = LiqOutcome("create_loan", loan_id, owner, TRUE, loan_id, FALSE)
             /\ UNCHANGED <<liqOracle, liquidationRewards>>

check_liquidation(loan_id) ==
  LET r == check_liquidation_result(loan_id)
  IN /\ LiqIdle
     /\ liqCall' = LiqOutcome("check_liquidation", loan_id, Nobody, r.ok, 0, r.yes)
     /\ liqStreak' = NoStreak
     /\ UNCHANGED <<now, lastprice, liqStore, slVars>>

\* liquidate_position refusing every liquidator but the loan's owner
liquidate_position_owner_only(liquidator, loan_id) ==
  LET r == check_liquidation_result(loan_id)
      won == r.ok /\ r.yes /\ loans[loan_id].owner = liquidator
  IN /\ LiqIdle
     /\ UNCHANGED <<now, lastprice, slVars>>
     /\ liqStreak' = [id |-> loan_id,
                      wins |-> (IF liqStreak.id = loan_id THEN liqStreak.wins ELSE 0)
                               + (IF won THEN 1 ELSE 0)]
     /\ IF ~won
        THEN LiqPanic("liquidate_position", loan_id, liquidator)
        ELSE LET loan == loans[loan_id]
                 reward == TruncDiv(loan.collateral_amount * LIQUIDATION_BONUS_BPS, 10000)
             IN /\ loans' = save_loan(loans, loan_id, [loan EXCEPT !.status = "Liquidated"])
                /\ liquidationRewards' =
                     add_liquidation_reward(liquidationRewards, liquidator, reward)
                /\ liqCall' = LiqOutcome("liquidate_position", loan_id, liquidator,
                                         TRUE, reward, FALSE)
                /\ UNCHANGED <<liqOracle, loanCounter, userLoans>>

liquidate_position(liquidator, loan_id) ==
  LET r == check_liquidation_result(loan_id)
      won == r.ok /\ r.yes
  IN /\ LiqIdle
     /\ UNCHANGED <<now, lastprice, slVars>>
     /\ liqStreak' = [id |-> loan_id,
                      wins |-> (IF liqStreak.id = loan_id THEN liqStreak.wins ELSE 0)
                               + (IF won THEN 1 ELSE 0)]
     /\ IF ~won
        THEN LiqPanic("liquidate_position", loan_id, liquidator)
        ELSE LET loan == loans[loan_id]
                 reward == TruncDiv(loan.collateral_amount * LIQUIDATION_BONUS_BPS, 10000)
             IN /\ loans' = save_loan(loans, loan_id, [loan EXCEPT !.status = "Liquidated"])
                /\ liquidationRewards' =
                     add_liquidation_reward(liquidationRewards, liquidator, reward)
                /\ liqCall' = LiqOutcome("liquidate_position", loan_id, liquidator,
                                         TRUE, reward, FALSE)
                /\ UNCHANGED <<liqOracle, loanCounter, userLoans>>

get_health_factor_twap(loan_id, periods, collateral_twap, borrowed_twap) ==
  /\ LiqIdle
  /\ liqStreak' = NoStreak
  /\ UNCHANGED <<now, lastprice, slVars>>
  /\ IF loan_id \notin DOMAIN loans
     THEN LiqPanic("get_health_factor_twap", loan_id, Nobody)
     ELSE
       LET loan == loans[loan_id]
       IN IF loan.status # "Active" \/ collateral_twap = None \/ borrowed_twap = None
          THEN /\ liqCall' = LiqOutcome("get_health_factor_twap", loan_id, Nobody, TRUE, 0, FALSE)
               /\ UNCHANGED liqStore
          ELSE
            LET collateral_value == Unwrap(collateral_twap) * loan.collateral_amount
                borrowed_value == Unwrap(borrowed_twap) * loan.borrowed_amount
                denominator == TruncDiv(borrowed_value * loan.liquidation_threshold, 10000)
            IN IF denominator = 0
               THEN LiqPanic("get_health_factor_twap", loan_id, Nobody)
               ELSE /\ liqCall' = LiqOutcome("get_health_factor_twap", loan_id, Nobody, TRUE,
                                             TruncDiv(collateral_value * 10000, denominator),
                                             FALSE)
                    /\ UNCHANGED liqStore

add_collateral(owner, loan_id, additional_amount) ==
  /\ LiqIdle
  /\ liqStreak' = NoStreak
  /\ UNCHANGED <<now, lastprice, slVars>>
  /\ IF loan_id \notin DOMAIN loans
     THEN LiqPanic("add_collateral", loan_id, owner)
     ELSE
       LET loan == loans[loan_id]
       IN IF loan.owner # owner
          THEN LiqPanic("add_collateral", loan_id, owner)
          ELSE IF loan.status # "Active"
          THEN LiqPanic("add_collateral", loan_id, owner)
          ELSE /\ loan.collateral_amount + additional_amount
                    <= MaxCollateral
               /\ loans' = save_loan(loans, loan_id,
                               [loan EXCEPT !.collateral_amount = @ + additional_amount])
               /\ liqCall' = LiqOutcome("add_collateral", loan_id, owner, TRUE, 0, FALSE)
               /\ UNCHANGED <<liqOracle, loanCounter, userLoans, liquidationRewards>>

\* repay_loan closing the loan only below zero
repay_loan_closes_below_zero(owner, loan_id, repay_amount) ==
  /\ LiqIdle
  /\ liqStreak' = NoStreak
  /\ UNCHANGED <<now, lastprice, slVars>>
  /\ IF loan_id \notin DOMAIN loans
     THEN LiqPanic("repay_loan", loan_id, owner)
     ELSE
       LET loan == loans[loan_id]
           remaining == loan.borrowed_amount - repay_amount
       IN IF loan.owner # owner
          THEN LiqPanic("repay_loan", loan_id, owner)
          ELSE IF loan.status # "Active"
          THEN LiqPanic("repay_loan", loan_id, owner)
          ELSE /\ loans' = save_loan(loans, loan_id,
                               [loan EXCEPT !.borrowed_amount = remaining,
                                            !.status = IF remaining < 0 THEN "Closed" ELSE @])
               /\ liqCall' = LiqOutcome("repay_loan", loan_id, owner, TRUE, 0, FALSE)
               /\ UNCHANGED <<liqOracle, loanCounter, userLoans, liquidationRewards>>

repay_loan(owner, loan_id, repay_amount) ==
  /\ LiqIdle
  /\ liqStreak' = NoStreak
  /\ UNCHANGED <<now, lastprice, slVars>>
  /\ IF loan_id \notin DOMAIN loans
     THEN LiqPanic("repay_loan", loan_id, owner)
     ELSE
       LET loan == loans[loan_id]
           remaining == loan.borrowed_amount - repay_amount
       IN IF loan.owner # owner
          THEN LiqPanic("repay_loan", loan_id, owner)
          ELSE IF loan.status # "Active"
          THEN LiqPanic("repay_loan", loan_id, owner)
          ELSE /\ loans' = save_loan(loans, loan_id,
                               [loan EXCEPT !.borrowed_amount = remaining,
                                            !.status = IF remaining <= 0 THEN "Closed" ELSE @])
               /\ liqCall' = LiqOutcome("repay_loan", loan_id, owner, TRUE, 0, FALSE)
               /\ UNCHANGED <<liqOracle, loanCounter, userLoans, liquidationRewards>>

\* The host hands the outcome back to the caller; the next call starts after it.
LiqReturn ==
  /\ liqCall # NoLiqCall
  /\ liqCall' = NoLiqCall
  /\ UNCHANGED <<now, lastprice, liqStore, liqStreak, slVars>>

LiqCalls ==
  \/ \E o \in Oracles : LiquidationProtection_initialize(o)
  \/ \E owner \in Users, pair \in LoanPairs, ca \in CollateralAmounts,
        ba \in BorrowedAmounts, thr \in Thresholds :
       create_loan(owner, pair[1], ca, pair[2], ba, thr)
  \/ \E id \in LoanIds : check_liquidation(id)
  \/ \E who \in Users, id \in LoanIds : liquidate_position(who, id)
  \/ \E id \in LoanIds, periods \in PeriodsArgs, tw \in TwapPairs :
       get_health_factor_twap(id, periods, tw[1], tw[2])
  \/ \E who \in Users, id \in LoanIds, amt \in AddAmounts : add_collateral(who, id, amt)
  \/ \E who \in Users, id \in LoanIds, amt \in RepayAmounts : repay_loan(who, id, amt)

LiqNext ==
  \/ LiqReturn
  \/ OracleLastPrice
  \/ LiqCalls

\* =================================================== StopLossContract
SlOutcome(op, id, who, ok, ret, yes) ==
  [op |-> op, id |-> id, who |-> who, ok |-> ok, ret |-> ret, yes |-> yes]

NoSlCall == SlOutcome("none", 0, Nobody, TRUE, 0, FALSE)

SlIdle == slCall = NoSlCall

\* A panicking create_* whose advance of the id counter is kept
SlPanic_counter_kept(op, id, who) ==
  /\ orderCounter' = IF op \in {"create_stop_loss", "create_trailing_stop", "create_oco_order",
                                "create_twap_stop", "create_cross_asset_stop"}
                     THEN orderCounter + 1 ELSE orderCounter
  /\ UNCHANGED <<slConfig, orders, userOrders>>
  /\ slCall' = SlOutcome(op, id, who, FALSE, 0, FALSE)

\* A panicking call: the host rolls the whole call back.
SlPanic(op, id, who) ==
  /\ UNCHANGED slStore
  /\ slCall' = SlOutcome(op, id, who, FALSE, 0, FALSE)

get_next_order_id(counter) == counter + 1

save_order(os, order_id, order) == MapSet(os, order_id, order)

\* get_current_price refusing a quote of age 600 too
get_current_price_strict(asset) ==
  LET price_data == quote[asset]
  IN IF price_data = None
     THEN [ok |-> FALSE, val |-> 0]
     ELSE LET price_info == Unwrap(price_data)
          IN IF price_info.timestamp > now
             THEN [ok |-> FALSE, val |-> 0]
             ELSE IF now - price_info.timestamp >= MAX_PRICE_AGE
             THEN [ok |-> FALSE, val |-> 0]
             ELSE [ok |-> TRUE, val |-> price_info.price]

\* get_current_price: [ok |-> FALSE] when it panics (no quote, or a quote older
\* than 600; a quote timestamped after the ledger time underflows the u64
\* subtraction, which traps or wraps to an age far above 600).
get_current_price(asset) ==
  LET price_data == quote[asset]
  IN IF price_data = None
     THEN [ok |-> FALSE, val |-> 0]
     ELSE LET price_info == Unwrap(price_data)
          IN IF price_info.timestamp > now
             THEN [ok |-> FALSE, val |-> 0]
             ELSE IF now - price_info.timestamp > MAX_PRICE_AGE
             THEN [ok |-> FALSE, val |-> 0]
             ELSE [ok |-> TRUE, val |-> price_info.price]

\* get_twap_price / get_cross_price on the oracle's answer
unwrap_price(answer) ==
  IF answer = None THEN [ok |-> FALSE, val |-> 0] ELSE [ok |-> TRUE, val |-> Unwrap(answer)]

\* add_user_order without the cap
add_user_order_uncapped(uo, user, order_id) ==
  [ok |-> TRUE, val |-> [uo EXCEPT ![user] = Append(@, order_id)]]

\* add_user_order: [ok |-> FALSE] when the per-user cap is reached
add_user_order(uo, user, order_id) ==
  IF Len(uo[user]) >= MAX_ORDERS_PER_USER
  THEN [ok |-> FALSE, val |-> uo]
  ELSE [ok |-> TRUE, val |-> [uo EXCEPT ![user] = Append(@, order_id)]]

\* execute_order: reads the stored order, marks it Executed and saves it
execute_order(os, order_id) ==
  save_order(os, order_id, [os[order_id] EXCEPT !.status = "Executed"])

\* The trailing-stop update with the watermark test left out
trailing_update_always(order, current_price) ==
  IF order.trailing_percent # None
  THEN LET new_stop == TruncDiv(current_price * (100 - Unwrap(order.trailing_percent)), 100)
       IN [order |-> [order EXCEPT !.highest_price = current_price, !.stop_price = new_stop],
           saved |-> TRUE]
  ELSE [order |-> order, saved |-> FALSE]

\* The trailing-stop update raising the stop in memory without saving the order
trailing_update_unsaved(order, current_price) ==
  IF order.trailing_percent # None /\ current_price > order.highest_price
  THEN LET new_stop == TruncDiv(current_price * (100 - Unwrap(order.trailing_percent)), 100)
           raised == [order EXCEPT !.highest_price = current_price]
       IN IF new_stop > order.stop_price
          THEN [order |-> [raised EXCEPT !.stop_price = new_stop], saved |-> FALSE]
          ELSE [order |-> raised, saved |-> FALSE]
  ELSE [order |-> order, saved |-> FALSE]

\* The trailing-stop update that raises the stop and leaves the watermark as stored
trailing_update_stop_only(order, current_price) ==
  IF order.trailing_percent # None /\ current_price > order.highest_price
  THEN LET new_stop == TruncDiv(current_price * (100 - Unwrap(order.trailing_percent)), 100)
       IN IF new_stop > order.stop_price
          THEN [order |-> [order EXCEPT !.stop_price = new_stop], saved |-> TRUE]
          ELSE [order |-> order, saved |-> FALSE]
  ELSE [order |-> order, saved |-> FALSE]

\* The trailing-stop update that tracks and saves the watermark of every order,
\* with or without a trailing_percent
trailing_update_every_order(order, current_price) ==
  IF current_price > order.highest_price
  THEN LET raised == [order EXCEPT !.highest_price = current_price]
       IN IF order.trailing_percent = None
          THEN [order |-> raised, saved |-> TRUE]
          ELSE LET new_stop == TruncDiv(current_price * (100 - Unwrap(order.trailing_percent)), 100)
               IN IF new_stop > order.stop_price
                  THEN [order |-> [raised EXCEPT !.stop_price = new_stop], saved |-> TRUE]
                  ELSE [order |-> raised, saved |-> FALSE]
  ELSE [order |-> order, saved |-> FALSE]

\* The trailing-stop update of check_and_execute and check_and_execute_twap:
\* the order as the call holds it afterwards, and whether the call saved it.
trailing_update(order, current_price) ==
  IF order.trailing_percent # None /\ current_price > order.highest_price
  THEN LET new_stop == TruncDiv(current_price * (100 - Unwrap(order.trailing_percent)), 100)
           raised == [order EXCEPT !.highest_price = current_price]
       IN IF new_stop > order.stop_price
          THEN [order |-> [raised EXCEPT !.stop_price = new_stop], saved |-> TRUE]
          ELSE [order |-> raised, saved |-> FALSE]
  ELSE [order |-> order, saved |-> FALSE]

\* The trigger checks without the take-profit test
should_execute_stop_only(order, current_price) ==
  current_price <= order.stop_price

\* The trigger checks of check_and_execute and check_and_execute_twap
should_execute(order, current_price) ==
  \/ current_price <= order.stop_price
  \/ order.take_profit_price # None /\ current_price >= Unwrap(order.take_profit_price)

\* The evaluation with the test of the order's status left out
evaluate_any_status(order_id, price) ==
  IF order_id \notin DOMAIN orders
  THEN [ok |-> FALSE, yes |-> FALSE, orders |-> orders]
  ELSE IF ~price.ok
  THEN [ok |-> FALSE, yes |-> FALSE, orders |-> orders]
  ELSE LET u == trailing_update(orders[order_id], price.val)
           stored == IF u.saved THEN save_order(orders, order_id, u.order) ELSE orders
       IN IF should_execute(u.order, price.val)
          THEN [ok |-> TRUE, yes |-> TRUE, orders |-> execute_order(stored, order_id)]
          ELSE [ok |-> TRUE, yes |-> FALSE, orders |-> stored]

\* The body shared by check_and_execute and check_and_execute_twap, given the
\* price lookup's result: whether the call returns, what it returns, and the
\* Orders map it leaves.
evaluate(order_id, price) ==
  IF order_id \notin DOMAIN orders
  THEN [ok |-> FALSE, yes |-> FALSE, orders |-> orders]
  ELSE IF orders[order_id].status # "Active"
  THEN [ok |-> TRUE, yes |-> FALSE, orders |-> orders]
  ELSE IF ~price.ok
  THEN [ok |-> FALSE, yes |-> FALSE, orders |-> orders]
  ELSE LET u == trailing_update(orders[order_id], price.val)
           stored == IF u.saved THEN save_order(orders, order_id, u.order) ELSE orders
       IN IF should_execute(u.order, price.val)
          THEN [ok |-> TRUE, yes |-> TRUE, orders |-> execute_order(stored, order_id)]
          ELSE [ok |-> TRUE, yes |-> FALSE, orders |-> stored]

SlInit ==
  /\ quote = [a \in QuotedSymbols |-> None]
  /\ slConfig = None
  /\ orderCounter = 0
  /\ orders = EmptyMap
  /\ userOrders = [u \in Users |-> <<>>]
  /\ slCall = NoSlCall
  /\ slStreak = NoStreak

\* The oracle publishes a quote, or has none, for a symbol.
OraclePublish ==
  \E a \in Symbols :
    \E q \in {None} \cup {Some([price |-> p, timestamp |-> t]) :
                            p \in SpotPrices, t \in {x \in Times : x <= now}} :
      /\ SlIdle
      /\ quote' = [quote EXCEPT ![a] = q]
      /\ UNCHANGED <<now, slStore, slCall, slStreak, lastprice, liqStore, liqCall, liqStreak>>

\* The ledger closes and its timestamp advances.
AdvanceLedger ==
  \E t \in Times :
    /\ SlIdle
    /\ t > now
    /\ now' = t
    /\ UNCHANGED <<quote, slStore, slCall, slStreak, lastprice, liqStore, liqCall, liqStreak>>

\* The oracle publishes a quote, or has none, for one of some symbols, stamped
\* with one of some ledger times.
OraclePublishFor(symbols, times) ==
  \E a \in symbols :
    \E q \in {None} \cup {Some([price |-> p, timestamp |-> t]) :
                            p \in SpotPrices, t \in {x \in times : x <= now}} :
      /\ SlIdle
      /\ quote' = [quote EXCEPT ![a] = q]
      /\ UNCHANGED <<now, slStore, slCall, slStreak, lastprice, liqStore, liqCall, liqStreak>>

\* The ledger closes at one of some later times.
AdvanceLedgerWithin(times) ==
  \E t \in times :
    /\ SlIdle
    /\ t > now
    /\ now' = t
    /\ UNCHANGED <<quote, slStore, slCall, slStreak, lastprice, liqStore, liqCall, liqStreak>>

SlFrame == UNCHANGED <<now, quote, lastprice, liqStore, liqCall, liqStreak>>

\* The model follows the order counter over two windows: the first MaxOrders
\* ids, and the ids around the per-user cap.
CounterInBounds ==
  \/ orderCounter < MaxOrders
  \/ /\ orderCounter >= MAX_ORDERS_PER_USER - 1
     /\ orderCounter < MAX_ORDERS_PER_USER + MaxOrders

StopLossContract_initialize(admin, oracle_address, fee_recipient) ==
  /\ SlIdle
  /\ SlFrame
  /\ slStreak' = NoStreak
  /\ IF slConfig # None
     THEN SlPanic("initialize", 0, Nobody)
     ELSE /\ slConfig' = Some([admin |-> admin, oracle |-> oracle_address,
                               fee_recipient |-> fee_recipient])
          /\ orderCounter' = 0
          /\ slCall' = SlOutcome("initialize", 0, Nobody, TRUE, 0, FALSE)
          /\ UNCHANGED <<orders, userOrders>>

\* The tail every create_* shares: the id from the counter, save_order,
\* add_user_order, return the id.
store_new_order(op, owner, order) ==
  LET order_id == get_next_order_id(orderCounter)
      added == add_user_order(userOrders, owner, order_id)
  IN IF ~added.ok
     THEN SlPanic(op, 0, owner)
     ELSE /\ orderCounter' = order_id
          /\ orders' = save_order(orders, order_id, order)
          /\ userOrders' = added.val
          /\ slCall' = SlOutcome(op, order_id, owner, TRUE, order_id, FALSE)
          /\ UNCHANGED slConfig

NewOrder(owner, asset, amount, stop_price, trailing_percent, highest_price, take_profit_price) ==
  [owner |-> owner, asset |-> asset, amount |-> amount, stop_price |-> stop_price,
   trailing_percent |-> trailing_percent, highest_price |-> highest_price,
   take_profit_price |-> take_profit_price, created_at |-> now, status |-> "Active"]

create_stop_loss(owner, asset, amount, stop_price) ==
  LET current_price == get_current_price(asset)
  IN /\ SlIdle
     /\ CounterInBounds
     /\ SlFrame
     /\ slStreak' = NoStreak
     /\ IF amount < MIN_ORDER_AMOUNT
        THEN SlPanic("create_stop_loss", 0, owner)
        ELSE IF ~current_price.ok
        THEN SlPanic("create_stop_loss", 0, owner)
        ELSE store_new_order("create_stop_loss", owner,
               NewOrder(owner, asset, amount, stop_price, None, current_price.val, None))

\* create_trailing_stop without the validation of trailing_percent
create_trailing_stop_any_percent(owner, asset, amount, trailing_percent) ==
  LET current_price == get_current_price(asset)
      stop_price == TruncDiv(current_price.val * (100 - trailing_percent), 100)
  IN /\ SlIdle
     /\ CounterInBounds
     /\ SlFrame
     /\ slStreak' = NoStreak
     /\ IF amount < MIN_ORDER_AMOUNT
        THEN SlPanic("create_trailing_stop", 0, owner)
        ELSE IF ~current_price.ok
        THEN SlPanic("create_trailing_stop", 0, owner)
        ELSE store_new_order("create_trailing_stop", owner,
               NewOrder(owner, asset, amount, stop_price, Some(trailing_percent),
                        current_price.val, None))

create_trailing_stop(owner, asset, amount, trailing_percent) ==
  LET current_price == get_current_price(asset)
      stop_price == TruncDiv(current_price.val * (100 - trailing_percent), 100)
  IN /\ SlIdle
     /\ CounterInBounds
     /\ SlFrame
     /\ slStreak' = NoStreak
     /\ IF amount < MIN_ORDER_AMOUNT
        THEN SlPanic("create_trailing_stop", 0, owner)
        ELSE IF trailing_percent = 0 \/ trailing_percent > 50
        THEN SlPanic("create_trailing_stop", 0, owner)
        ELSE IF ~current_price.ok
        THEN SlPanic("create_trailing_stop", 0, owner)
        ELSE store_new_order("create_trailing_stop", owner,
               NewOrder(owner, asset, amount, stop_price, Some(trailing_percent),
                        current_price.val, None))

\* create_oco_order without the validation of the two levels
create_oco_order_unchecked(owner, asset, amount, stop_price, take_profit_price) ==
  LET current_price == get_current_price(asset)
  IN /\ SlIdle
     /\ CounterInBounds
     /\ SlFrame
     /\ slStreak' = NoStreak
     /\ IF amount < MIN_ORDER_AMOUNT
        THEN SlPanic("create_oco_order", 0, owner)
        ELSE IF ~current_price.ok
        THEN SlPanic("create_oco_order", 0, owner)
        ELSE store_new_order("create_oco_order", owner,
               NewOrder(owner, asset, amount, stop_price, None, current_price.val,
                        Some(take_profit_price)))

create_oco_order(owner, asset, amount, stop_price, take_profit_price) ==
  LET current_price == get_current_price(asset)
  IN /\ SlIdle
     /\ CounterInBounds
     /\ SlFrame
     /\ slStreak' = NoStreak
     /\ IF amount < MIN_ORDER_AMOUNT
        THEN SlPanic("create_oco_order", 0, owner)
        ELSE IF ~current_price.ok
        THEN SlPanic("create_oco_order", 0, owner)
        ELSE IF stop_price >= current_price.val \/ take_profit_price <= current_price.val
        THEN SlPanic("create_oco_order", 0, owner)
        ELSE store_new_order("create_oco_order", owner,
               NewOrder(owner, asset, amount, stop_price, None, current_price.val,
                        Some(take_profit_price)))

create_twap_stop(owner, asset, amount, twap_periods, stop_percentage, twap_answer) ==
  LET twap_price == unwrap_price(twap_answer)
      stop_price == TruncDiv(twap_price.val * (100 - stop_percentage), 100)
  IN /\ SlIdle
     /\ CounterInBounds
     /\ SlFrame
     /\ slStreak' = NoStreak
     /\ IF amount < MIN_ORDER_AMOUNT
        THEN SlPanic("create_twap_stop", 0, owner)
        ELSE IF twap_periods < 3 \/ twap_periods > 20
        THEN SlPanic("create_twap_stop", 0, owner)
        ELSE IF ~twap_price.ok
        THEN SlPanic("create_twap_stop", 0, owner)
        ELSE store_new_order("create_twap_stop", owner,
               NewOrder(owner, asset, amount, stop_price, None, twap_price.val, None))

create_cross_asset_stop(owner, position_asset, trigger_asset, amount, trigger_price, cross_answer) ==
  LET cross_price == unwrap_price(cross_answer)
  IN /\ SlIdle
     /\ CounterInBounds
     /\ SlFrame
     /\ slStreak' = NoStreak
     /\ IF amount < MIN_ORDER_AMOUNT
        THEN SlPanic("create_cross_asset_stop", 0, owner)
        ELSE IF ~cross_price.ok
        THEN SlPanic("create_cross_asset_stop", 0, owner)
        ELSE store_new_order("create_cross_asset_stop", owner,
               NewOrder(owner, position_asset, amount, trigger_price, None,
                        cross_price.val, None))

\* slStreak after an evaluation of order_id that returned yes
StreakAfter(order_id, yes) ==
  [id |-> order_id,
   wins |-> (IF slStreak.id = order_id THEN slStreak.wins ELSE 0) + (IF yes THEN 1 ELSE 0)]

check_and_execute(order_id) ==
  LET r == evaluate(order_id,
                    IF order_id \in DOMAIN orders
                    THEN get_current_price(orders[order_id].asset)
                    ELSE [ok |-> FALSE, val |-> 0])
  IN /\ SlIdle
     /\ SlFrame
     /\ slStreak' = StreakAfter(order_id, r.ok /\ r.yes)
     /\ IF ~r.ok
        THEN SlPanic("check_and_execute", order_id, Nobody)
        ELSE /\ orders' = r.orders
             /\ slCall' = SlOutcome("check_and_execute", order_id, Nobody, TRUE, 0, r.yes)
             /\ UNCHANGED <<slConfig, orderCounter, userOrders>>

check_and_execute_twap(order_id, twap_periods, twap_answer) ==
  LET r == evaluate(order_id, unwrap_price(twap_answer))
  IN /\ SlIdle
     /\ SlFrame
     /\ slStreak' = StreakAfter(order_id, r.ok /\ r.yes)
     /\ IF ~r.ok
        THEN SlPanic("check_and_execute_twap", order_id, Nobody)
        ELSE /\ orders' = r.orders
             /\ slCall' = SlOutcome("check_and_execute_twap", order_id, Nobody, TRUE, 0, r.yes)
             /\ UNCHANGED <<slConfig, orderCounter, userOrders>>

\* cancel_order without the comparison of the caller with the order's owner
cancel_order_any_caller(owner, order_id) ==
  /\ SlIdle
  /\ SlFrame
  /\ slStreak' = NoStreak
  /\ IF order_id \notin DOMAIN orders
     THEN SlPanic("cancel_order", order_id, owner)
     ELSE IF orders[order_id].status # "Active"
     THEN SlPanic("cancel_order", order_id, owner)
     ELSE /\ orders' = save_order(orders, order_id,
                                  [orders[order_id] EXCEPT !.status = "Cancelled"])
          /\ slCall' = SlOutcome("cancel_order", order_id, owner, TRUE, 0, FALSE)
          /\ UNCHANGED <<slConfig, orderCounter, userOrders>>

\* cancel_order without the test of the order's status
cancel_order_any_status(owner, order_id) ==
  /\ SlIdle
  /\ SlFrame
  /\ slStreak' = NoStreak
  /\ IF order_id \notin DOMAIN orders
     THEN SlPanic("cancel_order", order_id, owner)
     ELSE IF orders[order_id].owner # owner
     THEN SlPanic("cancel_order", order_id, owner)
     ELSE /\ orders' = save_order(orders, order_id,
                                  [orders[order_id] EXCEPT !.status = "Cancelled"])
          /\ slCall' = SlOutcome("cancel_order", order_id, owner, TRUE, 0, FALSE)
          /\ UNCHANGED <<slConfig, orderCounter, userOrders>>

cancel_order(owner, order_id) ==
  /\ SlIdle
  /\ SlFrame
  /\ slStreak' = NoStreak
  /\ IF order_id \notin DOMAIN orders
     THEN SlPanic("cancel_order", order_id, owner)
     ELSE IF orders[order_id].owner # owner
     THEN SlPanic("cancel_order", order_id, owner)
     ELSE IF orders[order_id].status # "Active"
     THEN SlPanic("cancel_order", order_id, owner)
     ELSE /\ orders' = save_order(orders, order_id,
                                  [orders[order_id] EXCEPT !.status = "Cancelled"])
          /\ slCall' = SlOutcome("cancel_order", order_id, owner, TRUE, 0, FALSE)
          /\ UNCHANGED <<slConfig, orderCounter, userOrders>>

\* get_order_details: get_order's unwrap panics on an id that is not stored
get_order_details(order_id) ==
  /\ SlIdle
  /\ SlFrame
  /\ slStreak' = NoStreak
  /\ IF order_id \notin DOMAIN orders
     THEN SlPanic("get_order_details", order_id, Nobody)
     ELSE /\ slCall' = SlOutcome("get_order_details", order_id, Nobody, TRUE, 0, FALSE)
          /\ UNCHANGED slStore

\* The host hands the outcome back to the caller; the next call starts after it.
SlReturn ==
  /\ slCall # NoSlCall
  /\ slCall' = NoSlCall
  /\ UNCHANGED <<now, quote, slStore, slStreak, lastprice, liqStore, liqCall, liqStreak>>

\* The create_* calls made by the owners of a set
SlCreates(owners) ==
  \/ \E owner \in owners, asset \in Symbols, amount \in OrderAmounts, stop \in StopInputs :
       create_stop_loss(owner, asset, amount, stop)
  \/ \E owner \in owners, asset \in Symbols, amount \in OrderAmounts, pct \in TrailingPercents :
       create_trailing_stop(owner, asset, amount, pct)
  \/ \E owner \in owners, asset \in Symbols, amount \in OrderAmounts, stop \in StopInputs,
        tp \in TakeProfitInputs :
       create_oco_order(owner, asset, amount, stop, tp)
  \/ \E owner \in owners, asset \in Symbols, amount \in OrderAmounts,
        periods \in CreateTwapPeriods, pct \in StopPercentages, tw \in CreateTwapPrices :
       create_twap_stop(owner, asset, amount, periods, pct, tw)
  \/ \E owner \in owners, asset \in Symbols, trig \in TriggerSymbols, amount \in OrderAmounts,
        stop \in StopInputs, x \in CrossPrices :
       create_cross_asset_stop(owner, asset, trig, amount, stop, x)

\* The calls on existing orders, by any caller
SlOrderCalls ==
  \/ \E id \in OrderIds : check_and_execute(id)
  \/ \E id \in OrderIds, periods \in CheckTwapPeriods, tw \in TwapPrices :
       check_and_execute_twap(id, periods, tw)
  \/ \E who \in Users, id \in OrderIds : cancel_order(who, id)

SlInitialize ==
  \E a \in Admins, o \in Oracles, f \in FeeRecipients : StopLossContract_initialize(a, o, f)

\* Every operation, every user an owner, the ledger time advancing.
SlNext ==
  \/ SlReturn
  \/ OraclePublish
  \/ AdvanceLedger
  \/ SlInitialize
  \/ SlCreates(Users)
  \/ SlOrderCalls

\* Keepers and one owner: every operation, the orders all created by one
\* owner, evaluated and cancelled by any caller.
KeeperNext ==
  \/ SlReturn
  \/ OraclePublish
  \/ AdvanceLedger
  \/ SlInitialize
  \/ SlCreates({"alice"})
  \/ SlOrderCalls

\* Cross-asset orders only: the oracle quotes the position asset and the
\* trigger asset, one owner creates cross-asset stops, anyone evaluates them.
CrossNext ==
  \/ SlReturn
  \/ OraclePublish
  \/ OraclePublishFor(TriggerSymbols, Times)
  \/ AdvanceLedger
  \/ \E asset \in Symbols, trig \in TriggerSymbols, amount \in OrderAmounts,
        stop \in StopInputs, x \in CrossPrices :
       create_cross_asset_stop("alice", asset, trig, amount, stop, x)
  \/ \E id \in OrderIds : check_and_execute(id)
  \/ \E who \in Users, id \in OrderIds : cancel_order(who, id)

\* The operations that read the spot price, with quotes of the ages 0, 600
\* and 601.
StaleNext ==
  \/ SlReturn
  \/ OraclePublishFor(Symbols, StaleTimes)
  \/ AdvanceLedgerWithin(StaleTimes)
  \/ \E asset \in Symbols, amount \in OrderAmounts, stop \in StopInputs :
       create_stop_loss("alice", asset, amount, stop)
  \/ \E asset \in Symbols, amount \in OrderAmounts, pct \in TrailingPercents :
       create_trailing_stop("alice", asset, amount, pct)
  \/ \E asset \in Symbols, amount \in OrderAmounts, stop \in StopInputs,
        tp \in TakeProfitInputs :
       create_oco_order("alice", asset, amount, stop, tp)
  \/ \E id \in OrderIds : check_and_execute(id)

Init == LiqInit /\ SlInit

LiqSpec == Init /\ [][LiqNext]_vars

StopSpec == Init /\ [][SlNext]_vars

KeeperSpec == Init /\ [][KeeperNext]_vars

\* One owner one order short of the per-user cap: alice has created
\* MAX_ORDERS_PER_USER - 1 stop-loss orders at the price 101, all still Active.
CapInit ==
  /\ LiqInit
  /\ quote = [a \in QuotedSymbols |-> None]
  /\ slConfig = None
  /\ orderCounter = MAX_ORDERS_PER_USER - 1
  /\ orders = [i \in 1..(MAX_ORDERS_PER_USER - 1) |->
                 NewOrder("alice", "BTC", MIN_ORDER_AMOUNT, 100, None, 101, None)]
  /\ userOrders = [u \in Users |->
                     IF u = "alice" THEN [i \in 1..(MAX_ORDERS_PER_USER - 1) |-> i] ELSE <<>>]
  /\ slCall = NoSlCall
  /\ slStreak = NoStreak

\* the id that fills the owner's list, the one evaluated and cancelled
CapIds == {MAX_ORDERS_PER_USER}

CapNext ==
  \/ SlReturn
  \/ OraclePublish
  \/ \E owner \in Users, asset \in Symbols, amount \in OrderAmounts, stop \in StopInputs :
       create_stop_loss(owner, asset, amount, stop)
  \/ \E id \in CapIds : check_and_execute(id)
  \/ \E who \in Users, id \in CapIds : cancel_order(who, id)

CapSpec == CapInit /\ [][CapNext]_vars

CrossSpec == Init /\ [][CrossNext]_vars

StaleSpec == Init /\ [][StaleNext]_vars

\* The two contracts share no storage: a deployment in which one of them is
\* exercised while the other is still as deployed.  One owner opens the loans
\* and the orders; every user calls the other operations.
LiqUntouched ==
  /\ lastprice = [a \in OracleAssets |-> None]
  /\ liqStore = <<None, 0, EmptyMap, [u \in Users |-> <<>>], EmptyMap>>
  /\ liqCall = NoLiqCall
  /\ liqStreak = NoStreak

SlUntouched ==
  /\ now = 0
  /\ quote = [a \in QuotedSymbols |-> None]
  /\ slStore = <<None, 0, EmptyMap, [u \in Users |-> <<>>]>>
  /\ slCall = NoSlCall
  /\ slStreak = NoStreak

ProtocolNext ==
  \/ SlUntouched /\ LiqReturn
  \/ SlUntouched /\ OracleLastPrice
  \/ SlUntouched /\ \E o \in Oracles : LiquidationProtection_initialize(o)
  \/ SlUntouched /\ \E owner \in {"alice"}, pair \in LoanPairs, ca \in CollateralAmounts,
                        ba \in BorrowedAmounts, thr \in Thresholds :
                       create_loan(owner, pair[1], ca, pair[2], ba, thr)
  \/ SlUntouched /\ \E id \in LoanIds : check_liquidation(id)
  \/ SlUntouched /\ \E who \in Users, id \in LoanIds : liquidate_position(who, id)
  \/ SlUntouched /\ \E id \in LoanIds, periods \in PeriodsArgs, tw \in TwapPairs :
                       get_health_factor_twap(id, periods, tw[1], tw[2])
  \/ SlUntouched /\ \E who \in Users, id \in LoanIds, amt \in AddAmounts :
                       add_collateral(who, id, amt)
  \/ SlUntouched /\ \E who \in Users, id \in LoanIds, amt \in RepayAmounts :
                       repay_loan(who, id, amt)
  \/ LiqUntouched /\ SlReturn
  \/ LiqUntouched /\ OraclePublish
  \/ LiqUntouched /\ AdvanceLedger
  \/ LiqUntouched /\ SlInitialize
  \/ LiqUntouched /\ SlCreates({"alice"})
  \/ LiqUntouched /\ SlOrderCalls
  \/ LiqUntouched /\ \E id \in OrderIds : get_order_details(id)

ProtocolSpec == Init /\ [][ProtocolNext]_vars

\* periods values outside [3,20]
OutOfRangePeriods == {2, 21}

\* Every TWAP operation of the two contracts called with a periods argument
\* outside [3,20], on loans and orders one owner has opened.
TwapNext ==
  \/ SlUntouched /\ LiqReturn
  \/ SlUntouched /\ OracleLastPrice
  \/ SlUntouched /\ \E pair \in LoanPairs, ca \in CollateralAmounts,
                        ba \in BorrowedAmounts, thr \in Thresholds :
                       create_loan("alice", pair[1], ca, pair[2], ba, thr)
  \/ SlUntouched /\ \E id \in LoanIds, periods \in OutOfRangePeriods, tw \in TwapPairs :
                       get_health_factor_twap(id, periods, tw[1], tw[2])
  \/ LiqUntouched /\ SlReturn
  \/ LiqUntouched /\ OraclePublish
  \/ LiqUntouched /\ \E asset \in Symbols, amount \in OrderAmounts, stop \in StopInputs :
                        create_stop_loss("alice", asset, amount, stop)
  \/ LiqUntouched /\ \E asset \in Symbols, amount \in OrderAmounts,
                         periods \in OutOfRangePeriods, pct \in StopPercentages,
                         tw \in CreateTwapPrices :
                        create_twap_stop("alice", asset, amount, periods, pct, tw)
  \/ LiqUntouched /\ \E id \in OrderIds, periods \in OutOfRangePeriods, tw \in TwapPrices :
                        check_and_execute_twap(id, periods, tw)

TwapSpec == Init /\ [][TwapNext]_vars

\* ------------------------------------------------ liquidation: properties
IsTerminalLoan(l) == l.status \in {"Liquidated", "Closed"}

\* the two legs of a loan valued at the oracle's current answers
PricesAvailable(l) ==
  LastPrice(l.collateral_asset) # None /\ LastPrice(l.borrowed_asset) # None
CollateralValue(l) == Unwrap(LastPrice(l.collateral_asset)) * l.collateral_amount
BorrowedValue(l) == Unwrap(LastPrice(l.borrowed_asset)) * l.borrowed_amount
RatioBps(l) == TruncDiv(CollateralValue(l) * 10000, BorrowedValue(l))

\* C1: a loan id whose record is Liquidated or Closed keeps that status in
\* every later state, whatever operation is called.
C1_LoanStatusOneWay ==
  [][\A id \in DOMAIN loans :
       IsTerminalLoan(loans[id]) =>
         id \in DOMAIN loans' /\ loans'[id].status = loans[id].status]_vars

\* C3: in any run of liquidate_position calls on one loan id at most one call
\* succeeds, and a call on a loan that is not Active (in particular every call
\* after the successful one) fails, returns no reward and leaves the loan
\* records and the reward ledger as they were.
C3_LiquidationAtMostOnce ==
  [][liqCall'.op = "liquidate_position" =>
       /\ liqStreak'.wins <= 1
       /\ (liqCall'.id \in DOMAIN loans /\ loans[liqCall'.id].status # "Active") =>
            /\ ~liqCall'.ok
            /\ liqCall'.ret = 0
            /\ liquidationRewards' = liquidationRewards
            /\ loans' = loans
       /\ (liqStreak.id = liqCall'.id /\ liqStreak.wins >= 1) =>
            /\ ~liqCall'.ok
            /\ liquidationRewards' = liquidationRewards]_vars

\* C3 witness: a second liquidate_position on the loan just liquidated failed.
C3_Witness ==
  /\ liqCall.op = "liquidate_position"
  /\ ~liqCall.ok
  /\ liqStreak.id = liqCall.id
  /\ liqStreak.wins = 1
  /\ liqCall.id \in DOMAIN loans
  /\ loans[liqCall.id].status = "Liquidated"
  /\ RewardOf(liquidationRewards, "bob") = 50

\* C6: a create_loan call succeeds only with threshold > 10000 and a ratio,
\* computed from the oracle prices of the call, >= the threshold; a failing
\* call stores no loan.
C6_CreateLoanRatio ==
  [][liqCall'.op = "create_loan" =>
       IF liqCall'.ok
       THEN /\ liqCall'.ret \in DOMAIN loans'
            /\ LET l == loans'[liqCall'.ret]
               IN /\ l.liquidation_threshold > 10000
                  /\ PricesAvailable(l)
                  /\ BorrowedValue(l) # 0
                  /\ RatioBps(l) >= l.liquidation_threshold
                  /\ l.status = "Active"
       ELSE /\ loans' = loans
            /\ loanCounter' = loanCounter
            /\ userLoans' = userLoans]_vars

\* C6 witness: a loan was created with its ratio exactly at the threshold.
C6_Witness ==
  /\ liqCall.op = "create_loan"
  /\ liqCall.ok
  /\ RatioBps(loans[liqCall.ret]) = loans[liqCall.ret].liquidation_threshold

\* C7: every successful create_loan returns an id greater than every id
\* assigned before, so it never writes over an existing loan record.
C7_LoanIdsNeverReused ==
  [][(liqCall'.op = "create_loan" /\ liqCall'.ok) =>
       \A id \in DOMAIN loans : liqCall'.ret > id]_vars

\* what C9 says check_liquidation returns true for
ShouldLiquidate(id) ==
  /\ id \in DOMAIN loans
  /\ loans[id].status = "Active"
  /\ PricesAvailable(loans[id])
  /\ BorrowedValue(loans[id]) # 0
  /\ RatioBps(loans[id]) <= loans[id].liquidation_threshold

\* C9: check_liquidation returns true exactly when the loan is Active, both
\* prices are available and the ratio is <= the threshold, and it changes
\* no persisted state.
C9_CheckLiquidationIff ==
  [][liqCall'.op = "check_liquidation" =>
       /\ (liqCall'.ok /\ liqCall'.yes) <=> ShouldLiquidate(liqCall'.id)
       /\ UNCHANGED liqStore]_vars

\* C9 witness: check_liquidation returned true at a ratio equal to the threshold.
C9_Witness ==
  /\ liqCall.op = "check_liquidation"
  /\ liqCall.ok
  /\ liqCall.yes
  /\ RatioBps(loans[liqCall.id]) = loans[liqCall.id].liquidation_threshold

\* the one case in which check_liquidation aborts on an existing loan
ZeroBorrowedValue(l) ==
  l.status = "Active" /\ PricesAvailable(l) /\ BorrowedValue(l) = 0

\* C10 as stated: on an existing loan check_liquidation never aborts, and it
\* returns false when the loan is not Active or a price is unavailable.
C10_CheckLiquidationNeverAborts ==
  (liqCall.op = "check_liquidation" /\ liqCall.id \in DOMAIN loans) =>
    /\ liqCall.ok
    /\ (loans[liqCall.id].status # "Active" \/ ~PricesAvailable(loans[liqCall.id]))
         => ~liqCall.yes

\* C10 amended: on an existing loan check_liquidation aborts exactly when the
\* loan is Active, both prices are available and the borrowed value is zero;
\* otherwise it returns a boolean, false when the loan is not Active or a
\* price is unavailable.
C10_CheckLiquidationAbortsOnlyOnZero ==
  (liqCall.op = "check_liquidation" /\ liqCall.id \in DOMAIN loans) =>
    /\ liqCall.ok <=> ~ZeroBorrowedValue(loans[liqCall.id])
    /\ (loans[liqCall.id].status # "Active" \/ ~PricesAvailable(loans[liqCall.id]))
         => (liqCall.ok /\ ~liqCall.yes)

\* C10 witness: check_liquidation returned false for a price unavailable on an
\* Active loan.
C10_Witness ==
  /\ liqCall.op = "check_liquidation"
  /\ liqCall.id \in DOMAIN loans
  /\ loans[liqCall.id].status = "Active"
  /\ ~PricesAvailable(loans[liqCall.id])
  /\ liqCall.ok
  /\ ~liqCall.yes

NotEligible(l) ==
  \/ l.status # "Active"
  \/ ~PricesAvailable(l)
  \/ (BorrowedValue(l) # 0 /\ RatioBps(l) > l.liquidation_threshold)

\* C12: liquidate_position on a loan that is not Active, or has a price
\* unavailable, or has its ratio strictly above the threshold, fails and
\* leaves the loan records and the reward ledger as they were; a loan becomes
\* Liquidated only in a liquidate_position call made while its ratio is <= the
\* threshold.
C12_IneligibleLiquidationFails ==
  [][/\ (liqCall'.op = "liquidate_position" /\ liqCall'.id \in DOMAIN loans
          /\ NotEligible(loans[liqCall'.id])) =>
            /\ ~liqCall'.ok
            /\ loans' = loans
            /\ liquidationRewards' = liquidationRewards
     /\ \A id \in DOMAIN loans :
          (loans[id].status # "Liquidated" /\ id \in DOMAIN loans'
             /\ loans'[id].status = "Liquidated") =>
            /\ liqCall'.op = "liquidate_position"
            /\ liqCall'.id = id
            /\ ~NotEligible(loans[id])
            /\ BorrowedValue(loans[id]) # 0
            /\ RatioBps(loans[id]) <= loans[id].liquidation_threshold]_vars

\* C12 witness: liquidate_position failed on an Active loan, both prices
\* available, whose ratio stands above its threshold.
C12_Witness ==
  /\ liqCall.op = "liquidate_position"
  /\ ~liqCall.ok
  /\ liqCall.id \in DOMAIN loans
  /\ loans[liqCall.id].status = "Active"
  /\ PricesAvailable(loans[liqCall.id])
  /\ BorrowedValue(loans[liqCall.id]) # 0
  /\ RatioBps(loans[liqCall.id]) > loans[liqCall.id].liquidation_threshold

\* C26: add_collateral and repay_loan succeed only on an Active loan and
\* change nothing on any other; a successful repay_loan lowers borrowed_amount
\* by the amount and closes the loan exactly when the result is <= 0; a
\* successful add_collateral changes only collateral_amount; neither sets a
\* status to Liquidated, credits a reward or touches another loan.
C26_OwnerMutations ==
  [][(liqCall'.op \in {"add_collateral", "repay_loan"} /\ liqCall'.id \in DOMAIN loans) =>
       LET id == liqCall'.id
           old == loans[id]
           new == loans'[id]
       IN /\ liqCall'.ok => old.status = "Active"
          /\ old.status # "Active" => (~liqCall'.ok /\ UNCHANGED liqStore)
          /\ UNCHANGED <<liqOracle, loanCounter, userLoans, liquidationRewards>>
          /\ DOMAIN loans' = DOMAIN loans
          /\ \A j \in DOMAIN loans \ {id} : loans'[j] = loans[j]
          /\ new.status = "Liquidated" => old.status = "Liquidated"
          /\ (liqCall'.op = "add_collateral" /\ liqCall'.ok) =>
               /\ new.collateral_amount - old.collateral_amount \in AddAmounts
               /\ new = [old EXCEPT !.collateral_amount = new.collateral_amount]
          /\ (liqCall'.op = "repay_loan" /\ liqCall'.ok) =>
               /\ old.borrowed_amount - new.borrowed_amount \in RepayAmounts
               /\ new = [old EXCEPT !.borrowed_amount = new.borrowed_amount,
                                     !.status = IF new.borrowed_amount <= 0
                                                THEN "Closed" ELSE "Active"]]_vars

\* C26 witness: a repayment that brought borrowed_amount to exactly 0 closed
\* the loan.
C26_Witness ==
  /\ liqCall.op = "repay_loan"
  /\ liqCall.ok
  /\ loans[liqCall.id].borrowed_amount = 0
  /\ loans[liqCall.id].status = "Closed"

\* C34: no operation of the liquidation contract, initialize included,
\* lowers a liquidator's entry of the reward ledger; a successful
\* liquidate_position adds the reward it returns to the liquidator's entry
\* and every other step leaves the entries as they are.
C34_RewardLedgerCumulative ==
  [][/\ \A u \in Users : RewardOf(liquidationRewards', u) >= RewardOf(liquidationRewards, u)
     /\ \A u \in Users :
          RewardOf(liquidationRewards', u) =
            RewardOf(liquidationRewards, u)
              + (IF liqCall'.op = "liquidate_position" /\ liqCall'.ok /\ liqCall'.who = u
                    /\ liqCall # liqCall'
                 THEN liqCall'.ret ELSE 0)]_vars

\* --------------------------------------------------- stop-loss: properties
IsTerminalOrder(o) == o.status \in {"Executed", "Cancelled"}

IsCreate(op) ==
  op \in {"create_stop_loss", "create_trailing_stop", "create_oco_order",
          "create_twap_stop", "create_cross_asset_stop"}

IsEvaluation(op) == op \in {"check_and_execute", "check_and_execute_twap"}

\* C2: an order id whose record is Executed or Cancelled keeps that status
\* in every later state, whatever operation is called.
C2_OrderStatusOneWay ==
  [][\A id \in DOMAIN orders :
       IsTerminalOrder(orders[id]) =>
         id \in DOMAIN orders' /\ orders'[id].status = orders[id].status]_vars

\* C4: in any run of check_and_execute / check_and_execute_twap calls on one
\* order id at most one call returns true; a call returns true only on an
\* Active order, which it leaves Executed, and no evaluation moves an order
\* to Executed from any other status.
C4_ExecutionAtMostOnce ==
  [][IsEvaluation(slCall'.op) =>
       /\ slStreak'.wins <= 1
       /\ (slCall'.ok /\ slCall'.yes) =>
            /\ slCall'.id \in DOMAIN orders
            /\ orders[slCall'.id].status = "Active"
            /\ orders'[slCall'.id].status = "Executed"
       /\ \A id \in DOMAIN orders :
            orders[id].status # "Active" => orders'[id] = orders[id]
       /\ \A id \in DOMAIN orders :
            (orders'[id].status = "Executed" /\ orders[id].status = "Active")
              => (id = slCall'.id /\ slCall'.yes)]_vars

\* C4 witness: after an evaluation that executed the order, a further
\* evaluation of the same id in the same run returned false.
C4_Witness ==
  /\ IsEvaluation(slCall.op)
  /\ slCall.ok
  /\ ~slCall.yes
  /\ slStreak.id = slCall.id
  /\ slStreak.wins = 1
  /\ orders[slCall.id].status = "Executed"

\* C5: no evaluation lowers the stop_price of an Active trailing order.
C5_TrailingStopNeverDecreases ==
  [][IsEvaluation(slCall'.op) =>
       \A id \in DOMAIN orders :
         (orders[id].trailing_percent # None /\ orders[id].status = "Active")
           => orders'[id].stop_price >= orders[id].stop_price]_vars

\* C5 witness: an Active trailing order whose stop stands at 100 under a
\* watermark of 200 has just been evaluated at the lower price 101.
C5_Witness ==
  /\ slCall.op = "check_and_execute"
  /\ slCall.ok
  /\ ~slCall.yes
  /\ orders[slCall.id].trailing_percent # None
  /\ orders[slCall.id].status = "Active"
  /\ orders[slCall.id].highest_price = 200
  /\ orders[slCall.id].stop_price = 100
  /\ quote[orders[slCall.id].asset] # None
  /\ Unwrap(quote[orders[slCall.id].asset]).price = 101

\* C8: every successful create_* returns an id greater than every id
\* assigned before (the first one returns 1), so it never writes over an
\* existing order record.
C8_OrderIdsNeverReused ==
  [][(IsCreate(slCall'.op) /\ slCall'.ok) =>
       /\ slCall'.ret >= 1
       /\ \A id \in DOMAIN orders : slCall'.ret > id]_vars

\* the spot quote of an asset as check_and_execute and create_* read it
QuoteFresh(a) ==
  /\ quote[a] # None
  /\ Unwrap(quote[a]).timestamp <= now
  /\ now - Unwrap(quote[a]).timestamp <= 600

QuotePrice(a) == Unwrap(quote[a]).price

\* the ratchet candidate of a trailing order at price c
Candidate(o, c) == (c * (100 - Unwrap(o.trailing_percent))) \div 100

StopAfterRatchet(o, c) ==
  IF o.trailing_percent # None /\ c > o.highest_price /\ Candidate(o, c) > o.stop_price
  THEN Candidate(o, c)
  ELSE o.stop_price

StopConditionHolds(o, c) == c <= StopAfterRatchet(o, c)

TakeProfitHolds(o, c) == o.take_profit_price # None /\ c >= Unwrap(o.take_profit_price)

\* an Active order whose trigger holds at the fresh spot price of its asset
Triggered(id) ==
  /\ id \in DOMAIN orders
  /\ orders[id].status = "Active"
  /\ QuoteFresh(orders[id].asset)
  /\ \/ StopConditionHolds(orders[id], QuotePrice(orders[id].asset))
     \/ TakeProfitHolds(orders[id], QuotePrice(orders[id].asset))

\* C13: liquidate_position on an eligible loan succeeds for every liquidator,
\* the loan's owner or not, and check_and_execute on a triggered order
\* succeeds whoever calls it; neither asks for the owner's authorization.
C13_TriggersPermissionless ==
  [][/\ (liqCall'.op = "liquidate_position" /\ ShouldLiquidate(liqCall'.id)) =>
            /\ liqCall'.ok
            /\ loans'[liqCall'.id].status = "Liquidated"
     /\ (slCall'.op = "check_and_execute" /\ Triggered(slCall'.id)) =>
            /\ slCall'.ok
            /\ slCall'.yes
            /\ orders'[slCall'.id].status = "Executed"]_vars

\* C13 witness: a liquidator who is not the loan's owner liquidated it.
C13_Witness ==
  /\ liqCall.op = "liquidate_position"
  /\ liqCall.ok
  /\ liqCall.who # loans[liqCall.id].owner
  /\ loans[liqCall.id].status = "Liquidated"

\* C14: cancel_order, add_collateral and repay_loan called by an identity
\* other than the record's owner fail and leave the persisted state as it
\* was; the order of a refused cancel_order keeps its status.
C14_OwnerScopedOperations ==
  [][/\ (liqCall'.op \in {"add_collateral", "repay_loan"}
          /\ liqCall'.id \in DOMAIN loans
          /\ loans[liqCall'.id].owner # liqCall'.who) =>
            /\ ~liqCall'.ok
            /\ UNCHANGED liqStore
     /\ (slCall'.op = "cancel_order"
          /\ slCall'.id \in DOMAIN orders
          /\ orders[slCall'.id].owner # slCall'.who) =>
            /\ ~slCall'.ok
            /\ UNCHANGED slStore]_vars

\* C14 witness: a cancel_order by someone else than the owner failed on an
\* Active order, which is still Active.
C14_Witness ==
  /\ slCall.op = "cancel_order"
  /\ ~slCall.ok
  /\ slCall.id \in DOMAIN orders
  /\ orders[slCall.id].owner # slCall.who
  /\ orders[slCall.id].status = "Active"

C16_TriggerEvaluation ==
  [][(slCall'.op = "check_and_execute" /\ slCall'.id \in DOMAIN orders
      /\ orders[slCall'.id].status = "Active"
      /\ QuoteFresh(orders[slCall'.id].asset)) =>
        LET o == orders[slCall'.id]
            c == QuotePrice(o.asset)
        IN /\ slCall'.ok
           /\ IF StopConditionHolds(o, c) \/ TakeProfitHolds(o, c)
              THEN slCall'.yes /\ orders'[slCall'.id].status = "Executed"
              ELSE ~slCall'.yes /\ orders'[slCall'.id].status = "Active"
           /\ \A id \in DOMAIN orders \ {slCall'.id} : orders'[id] = orders[id]]_vars

\* C16 witness: an order was executed by its take-profit, the price standing
\* above its stop.
C16_Witness ==
  /\ slCall.op = "check_and_execute"
  /\ slCall.ok
  /\ slCall.yes
  /\ orders[slCall.id].status = "Executed"
  /\ orders[slCall.id].take_profit_price # None
  /\ QuotePrice(orders[slCall.id].asset) >= Unwrap(orders[slCall.id].take_profit_price)
  /\ QuotePrice(orders[slCall.id].asset) > orders[slCall.id].stop_price

\* C17: create_oco_order succeeds only with stop_price < current price <
\* take_profit_price and otherwise stores nothing; an order with a take-profit
\* evaluated strictly between its two levels does not trigger and is left as
\* it was, and evaluated at or above its take-profit it is executed.
C17_OcoLevels ==
  [][/\ slCall'.op = "create_oco_order" =>
          IF slCall'.ok
          THEN LET o == orders'[slCall'.ret]
               IN /\ QuoteFresh(o.asset)
                  /\ o.stop_price < QuotePrice(o.asset)
                  /\ QuotePrice(o.asset) < Unwrap(o.take_profit_price)
                  /\ o.status = "Active"
          ELSE UNCHANGED slStore
     /\ (slCall'.op = "check_and_execute" /\ slCall'.id \in DOMAIN orders
          /\ orders[slCall'.id].status = "Active"
          /\ orders[slCall'.id].take_profit_price # None
          /\ QuoteFresh(orders[slCall'.id].asset)) =>
            LET o == orders[slCall'.id]
                c == QuotePrice(o.asset)
            IN /\ (o.stop_price < c /\ c < Unwrap(o.take_profit_price)) =>
                    (slCall'.ok /\ ~slCall'.yes /\ orders' = orders)
               /\ c >= Unwrap(o.take_profit_price) =>
                    (slCall'.ok /\ slCall'.yes /\ orders'[slCall'.id].status = "Executed")]_vars

\* C17 witness: an OCO order evaluated strictly between its stop and its
\* take-profit did not trigger and is Active.
C17_Witness ==
  /\ slCall.op = "check_and_execute"
  /\ slCall.ok
  /\ ~slCall.yes
  /\ orders[slCall.id].take_profit_price # None
  /\ orders[slCall.id].status = "Active"
  /\ orders[slCall.id].stop_price < QuotePrice(orders[slCall.id].asset)
  /\ QuotePrice(orders[slCall.id].asset) < Unwrap(orders[slCall.id].take_profit_price)

\* C18: for an order made by create_cross_asset_stop the evaluation fires
\* exactly when the trigger asset's fresh price is <= trigger_price, whatever
\* the position asset's price is (every order of CrossSpec is such an order).
C18_CrossAssetTrigger ==
  [][(slCall'.op = "check_and_execute" /\ slCall'.ok /\ slCall'.id \in DOMAIN orders
      /\ orders[slCall'.id].status = "Active") =>
        \A trig \in TriggerSymbols :
          slCall'.yes <=>
            (QuoteFresh(trig) /\ QuotePrice(trig) <= orders[slCall'.id].stop_price)]_vars

\* a quote older than 600
Stale(a) ==
  /\ quote[a] # None
  /\ now - Unwrap(quote[a]).timestamp > 600

\* C19: with the spot quote older than 600, create_stop_loss,
\* create_trailing_stop, create_oco_order and the check_and_execute of an
\* Active order fail and nothing is stored (nothing created, ratcheted or
\* executed); a check_and_execute at a quote of age exactly 600 returns.
C19_StaleQuoteRejected ==
  [][/\ (slCall'.op \in {"create_stop_loss", "create_trailing_stop", "create_oco_order"}
          /\ \A a \in Symbols : Stale(a)) =>
            /\ ~slCall'.ok
            /\ UNCHANGED slStore
     /\ (slCall'.op = "check_and_execute" /\ slCall'.id \in DOMAIN orders
          /\ Stale(orders[slCall'.id].asset)) =>
            /\ orders[slCall'.id].status = "Active" => ~slCall'.ok
            /\ ~slCall'.yes
            /\ UNCHANGED slStore
     /\ (slCall'.op = "check_and_execute" /\ slCall'.id \in DOMAIN orders
          /\ orders[slCall'.id].status = "Active"
          /\ quote[orders[slCall'.id].asset] # None
          /\ now - Unwrap(quote[orders[slCall'.id].asset]).timestamp = 600) =>
            slCall'.ok]_vars

\* C19 witness: the check_and_execute of an Active order whose stop the
\* quoted price has reached failed because the quote is 601 old.
C19_Witness ==
  /\ slCall.op = "check_and_execute"
  /\ ~slCall.ok
  /\ slCall.id \in DOMAIN orders
  /\ orders[slCall.id].status = "Active"
  /\ Stale(orders[slCall.id].asset)
  /\ now - Unwrap(quote[orders[slCall.id].asset]).timestamp = 601
  /\ QuotePrice(orders[slCall.id].asset) <= orders[slCall.id].stop_price

\* C21: a create_* by an owner whose id list holds 100 ids fails, stores no
\* order and leaves every id list as it was; every owner's id list has at most
\* 100 entries and every owner holds at most 100 Active orders.
C21_PerUserCap ==
  [][/\ (IsCreate(slCall'.op) /\ Len(userOrders[slCall'.who]) >= 100) =>
            /\ ~slCall'.ok
            /\ UNCHANGED slStore
     /\ \A u \in Users :
          /\ Len(userOrders'[u]) <= 100
          /\ Cardinality({id \in DOMAIN orders' :
                            orders'[id].owner = u /\ orders'[id].status = "Active"}) <= 100]_vars

\* C21 witness: alice, holding 100 ids and 100 Active orders, was refused a
\* further order while the price was available.
C21_Witness ==
  /\ IsCreate(slCall.op)
  /\ ~slCall.ok
  /\ slCall.who = "alice"
  /\ Len(userOrders["alice"]) = 100
  /\ Cardinality({id \in DOMAIN orders :
                    orders[id].owner = "alice" /\ orders[id].status = "Active"}) = 100
  /\ orderCounter = 100
  /\ \A a \in Symbols : QuoteFresh(a)

\* C22: an owner's id list grows only by the id returned by a successful
\* create_* of that owner, appended at the end, and every id in it resolves to
\* an order whose owner is that owner.
C22_UserIndexConsistent ==
  [][/\ IF IsCreate(slCall'.op) /\ slCall'.ok
        THEN userOrders' = [userOrders EXCEPT ![slCall'.who] = Append(@, slCall'.ret)]
        ELSE userOrders' = userOrders
     /\ \A u \in Users :
          \A i \in 1..Len(userOrders'[u]) :
            /\ userOrders'[u][i] \in DOMAIN orders'
            /\ orders'[userOrders'[u][i]].owner = u]_vars

\* C23: get_order_details, check_and_execute, check_and_execute_twap and
\* cancel_order on an order id that is not stored, and check_liquidation,
\* liquidate_position, add_collateral and repay_loan on a loan id that is not
\* stored, fail and change no state.
C23_UnknownIdFails ==
  [][/\ (slCall'.op \in {"get_order_details", "check_and_execute",
                          "check_and_execute_twap", "cancel_order"}
          /\ slCall'.id \notin DOMAIN orders) =>
            /\ ~slCall'.ok
            /\ UNCHANGED slStore
     /\ (liqCall'.op \in {"check_liquidation", "liquidate_position",
                           "add_collateral", "repay_loan"}
          /\ liqCall'.id \notin DOMAIN loans) =>
            /\ ~liqCall'.ok
            /\ UNCHANGED liqStore]_vars

\* C23 witness: get_order_details of an id that was never assigned failed.
C23_Witness ==
  /\ slCall.op = "get_order_details"
  /\ ~slCall.ok
  /\ slCall.id \notin DOMAIN orders
  /\ slCall.id > orderCounter

\* C24: an initialize of a contract that has been initialized fails and
\* leaves the configuration, the id counter and, for liquidation, the reward
\* ledger as they were.
C24_DoubleInitializeRejected ==
  [][/\ (liqCall'.op = "initialize" /\ liqOracle # None) =>
            /\ ~liqCall'.ok
            /\ UNCHANGED <<liqOracle, loanCounter, liquidationRewards>>
     /\ (slCall'.op = "initialize" /\ slConfig # None) =>
            /\ ~slCall'.ok
            /\ UNCHANGED <<slConfig, orderCounter>>]_vars

\* C25: check_and_execute and check_and_execute_twap on an order that is
\* Executed or Cancelled fail instead of returning a value, and change no
\* state.
C25_InactiveEvaluationFails ==
  [][(IsEvaluation(slCall'.op) /\ slCall'.id \in DOMAIN orders
      /\ IsTerminalOrder(orders[slCall'.id])) =>
        /\ ~slCall'.ok
        /\ UNCHANGED slStore]_vars

\* C27: cancel_order by the owner sets an Active order to Cancelled and
\* changes nothing else; on an Executed or Cancelled order it fails and
\* changes nothing; no evaluation executes or changes a Cancelled order.
C27_CancelOrder ==
  [][/\ (slCall'.op = "cancel_order" /\ slCall'.id \in DOMAIN orders
          /\ orders[slCall'.id].owner = slCall'.who) =>
            IF orders[slCall'.id].status = "Active"
            THEN /\ slCall'.ok
                 /\ orders' = [orders EXCEPT ![slCall'.id].status = "Cancelled"]
                 /\ UNCHANGED <<slConfig, orderCounter, userOrders>>
            ELSE /\ ~slCall'.ok
                 /\ UNCHANGED slStore
     /\ (IsEvaluation(slCall'.op) /\ slCall'.id \in DOMAIN orders
          /\ orders[slCall'.id].status = "Cancelled") =>
            /\ ~slCall'.yes
            /\ UNCHANGED slStore]_vars

\* C27 witness: a Cancelled order was evaluated at a fresh price at or below
\* its stop and was not executed.
C27_Witness ==
  /\ slCall.op = "check_and_execute"
  /\ ~slCall.yes
  /\ slCall.id \in DOMAIN orders
  /\ orders[slCall.id].status = "Cancelled"
  /\ QuoteFresh(orders[slCall.id].asset)
  /\ QuotePrice(orders[slCall.id].asset) <= orders[slCall.id].stop_price

C29_WatermarkUpdate ==
  [][(slCall'.op = "check_and_execute" /\ slCall'.ok /\ slCall'.id \in DOMAIN orders
      /\ orders[slCall'.id].status = "Active"
      /\ orders[slCall'.id].trailing_percent # None
      /\ QuotePrice(orders[slCall'.id].asset) > orders[slCall'.id].highest_price) =>
        orders'[slCall'.id].highest_price = QuotePrice(orders[slCall'.id].asset)]_vars

\* C30: create_twap_stop, check_and_execute_twap of an Active order and
\* get_health_factor_twap of an Active loan fail when periods is outside
\* [3,20] (every TWAP call of TwapSpec carries such a periods value).
C30_TwapPeriodsValidated ==
  [][/\ slCall'.op = "create_twap_stop" => ~slCall'.ok
     /\ (slCall'.op = "check_and_execute_twap" /\ slCall'.id \in DOMAIN orders
          /\ orders[slCall'.id].status = "Active") => ~slCall'.ok
     /\ (liqCall'.op = "get_health_factor_twap" /\ liqCall'.id \in DOMAIN loans
          /\ loans[liqCall'.id].status = "Active") => ~liqCall'.ok]_vars


\* ------------------------------------------------------- storage leases
\* The storage calls of one invocation, in program order: a set of a key and
\* an extend_ttl of a key to a horizon.  Keys are tuples; the instance
\* storage is one key.
Set(key) == [kind |-> "set", key |-> key, ttl |-> 0]
ExtendTtl(key, ttl) == [kind |-> "extend_ttl", key |-> key, ttl |-> ttl]
InstanceKey == <<"instance">>

get_next_loan_id_writes ==
  <<Set(<<"LoanCounter">>), ExtendTtl(<<"LoanCounter">>, LIQUIDATION_MAX_PERSISTENT_TTL)>>

save_loan_writes ==
  <<Set(<<"Loans">>), ExtendTtl(<<"Loans">>, LIQUIDATION_MAX_PERSISTENT_TTL)>>

add_user_loan_writes(user) ==
  <<Set(<<"UserLoans", user>>), ExtendTtl(<<"UserLoans", user>>, LIQUIDATION_MAX_PERSISTENT_TTL)>>

add_liquidation_reward_writes ==
  <<Set(<<"LiquidationRewards">>), ExtendTtl(<<"LiquidationRewards">>, LIQUIDATION_MAX_PERSISTENT_TTL)>>

\* initialize sets the oracle address in instance storage, LoanCounter and
\* LiquidationRewards in persistent storage, and extends the instance only.
LiquidationProtection_initialize_writes ==
  <<Set(InstanceKey), Set(<<"LoanCounter">>), Set(<<"LiquidationRewards">>),
    ExtendTtl(InstanceKey, LIQUIDATION_MAX_PERSISTENT_TTL)>>

get_next_order_id_writes ==
  <<Set(<<"OrderCounter">>), ExtendTtl(<<"OrderCounter">>, MAX_PERSISTENT_TTL)>>

save_order_writes ==
  <<Set(<<"Orders">>), ExtendTtl(<<"Orders">>, MAX_PERSISTENT_TTL)>>

add_user_order_writes(user) ==
  <<Set(<<"UserOrders", user>>), ExtendTtl(<<"UserOrders", user>>, MAX_PERSISTENT_TTL)>>

\* initialize sets Admin, OracleAddress and ProtocolFeeRecipient in instance
\* storage, OrderCounter in persistent storage, and extends the instance only.
StopLossContract_initialize_writes ==
  <<Set(InstanceKey), Set(InstanceKey), Set(InstanceKey), Set(<<"OrderCounter">>),
    ExtendTtl(InstanceKey, MAX_PERSISTENT_TTL)>>

\* The storage calls committed by the liquidation call that this step makes:
\* none when no call starts or when the call panics (the host rolls back).
LiqWrites ==
  IF liqCall # NoLiqCall \/ ~liqCall'.ok THEN <<>>
  ELSE CASE liqCall'.op = "initialize" -> LiquidationProtection_initialize_writes
         [] liqCall'.op = "create_loan" ->
              get_next_loan_id_writes \o save_loan_writes \o add_user_loan_writes(liqCall'.who)
         [] liqCall'.op = "liquidate_position" ->
              save_loan_writes \o add_liquidation_reward_writes
         [] liqCall'.op \in {"add_collateral", "repay_loan"} -> save_loan_writes
         [] OTHER -> <<>>

\* The storage calls committed by the stop-loss call that this step makes.  An
\* evaluation saves the order when it raises the stop and again in
\* execute_order when it executes.
SlWrites ==
  IF slCall # NoSlCall \/ ~slCall'.ok THEN <<>>
  ELSE CASE slCall'.op = "initialize" -> StopLossContract_initialize_writes
         [] IsCreate(slCall'.op) ->
              get_next_order_id_writes \o save_order_writes \o add_user_order_writes(slCall'.who)
         [] IsEvaluation(slCall'.op) ->
              (IF orders'[slCall'.id].stop_price # orders[slCall'.id].stop_price
               THEN save_order_writes ELSE <<>>)
              \o (IF slCall'.yes THEN save_order_writes ELSE <<>>)
         [] slCall'.op = "cancel_order" -> save_order_writes
         [] OTHER -> <<>>

\* Every set of a persistent key is followed, later in the same call, by an
\* extend_ttl of that key to the horizon ttl.
LeaseRenewed(writes, ttl) ==
  \A i \in 1..Len(writes) :
    (writes[i].kind = "set" /\ writes[i].key # InstanceKey) =>
      \E j \in (i + 1)..Len(writes) : writes[j] = ExtendTtl(writes[i].key, ttl)

\* C31: in every public operation of either contract, each write of a
\* persistent key (Orders, OrderCounter, UserOrders(u), Loans, LoanCounter,
\* UserLoans(u), LiquidationRewards) is followed in the same call by an
\* extend_ttl of that key to MAX_PERSISTENT_TTL, the writes of initialize
\* included.
C31_LeaseRenewedOnEveryWrite ==
  [][/\ LeaseRenewed(LiqWrites, LIQUIDATION_MAX_PERSISTENT_TTL)
     /\ LeaseRenewed(SlWrites, MAX_PERSISTENT_TTL)]_vars


\* C32: every stored order with a trailing_percent p has stop_price =
\* highest_price * (100 - p) / 100 (integer division); stop_price and
\* highest_price of a stored order change only in the create_* that writes the
\* id or in an evaluation of that trailing order, which raises both together.
C32_StopTracksWatermark ==
  [][/\ \A id \in DOMAIN orders' :
          orders'[id].trailing_percent # None =>
            orders'[id].stop_price =
              (orders'[id].highest_price * (100 - Unwrap(orders'[id].trailing_percent))) \div 100
     /\ \A id \in DOMAIN orders \cap DOMAIN orders' :
          (orders'[id].stop_price # orders[id].stop_price
             \/ orders'[id].highest_price # orders[id].highest_price) =>
            \/ IsCreate(slCall'.op) /\ slCall'.ok /\ slCall'.ret = id
            \/ /\ IsEvaluation(slCall'.op) /\ slCall'.ok /\ slCall'.id = id
               /\ orders[id].trailing_percent # None
               /\ orders'[id].highest_price > orders[id].highest_price
               /\ orders'[id].stop_price > orders[id].stop_price]_vars

\* C32 witness: a trailing order of percent 50 whose stop was raised to 100
\* at the watermark 200 has then been executed at a price at or below 100.
C32_Witness ==
  /\ slCall.op = "check_and_execute"
  /\ slCall.yes
  /\ orders[slCall.id].trailing_percent = Some(50)
  /\ orders[slCall.id].status = "Executed"
  /\ orders[slCall.id].stop_price = 100
  /\ orders[slCall.id].highest_price = 200


\* C33: a check_and_execute that follows a successful create_stop_loss,
\* create_trailing_stop or create_oco_order with no evaluation in between, at
\* a fresh spot price equal to the price at creation (the stored
\* highest_price), returns false and leaves the order Active.
C33_NewOrderNotTriggered ==
  [][(slCall'.op = "check_and_execute" /\ slStreak = NoStreak
      /\ slCall'.id \in DOMAIN orders
      /\ orders[slCall'.id].status = "Active"
      /\ QuoteFresh(orders[slCall'.id].asset)
      /\ QuotePrice(orders[slCall'.id].asset) = orders[slCall'.id].highest_price) =>
        /\ slCall'.ok
        /\ ~slCall'.yes
        /\ orders'[slCall'.id].status = "Active"]_vars


\* C35: once a loan is Liquidated or Closed, or an order Executed or
\* Cancelled, no later step changes any field of the record, and the record
\* stays stored under its id.
C35_TerminalRecordsFrozen ==
  [][/\ \A id \in DOMAIN loans :
          IsTerminalLoan(loans[id]) => (id \in DOMAIN loans' /\ loans'[id] = loans[id])
     /\ \A id \in DOMAIN orders :
          IsTerminalOrder(orders[id]) => (id \in DOMAIN orders' /\ orders'[id] = orders[id])]_vars


\* C36: every order stored by a successful create_twap_stop at a TWAP t >= 0
\* (kept as highest_price) has 0 <= stop_price <= t, whatever stop_percentage
\* the call accepted.
C36_TwapStopWithinRange ==
  [][(slCall'.op = "create_twap_stop" /\ slCall'.ok
      /\ orders'[slCall'.ret].highest_price >= 0) =>
        /\ orders'[slCall'.ret].stop_price >= 0
        /\ orders'[slCall'.ret].stop_price <= orders'[slCall'.ret].highest_price]_vars


\* C37: an order without trailing_percent keeps its stop_price and
\* highest_price in every step that is not a create_* writing its id; a
\* check_and_execute or check_and_execute_twap of such an order that returns
\* false changes no persisted state; one of a trailing order that returns
\* false changes at most that order's stop_price and highest_price.
C37_EvaluationFrame ==
  [][/\ \A id \in DOMAIN orders :
          (orders[id].trailing_percent = None
             /\ ~(IsCreate(slCall'.op) /\ slCall'.ok /\ slCall'.ret = id)) =>
            /\ orders'[id].stop_price = orders[id].stop_price
            /\ orders'[id].highest_price = orders[id].highest_price
     /\ (IsEvaluation(slCall'.op) /\ slCall'.ok /\ ~slCall'.yes
          /\ slCall'.id \in DOMAIN orders) =>
            IF orders[slCall'.id].trailing_percent = None
            THEN UNCHANGED slStore
            ELSE /\ UNCHANGED <<slConfig, orderCounter, userOrders>>
                 /\ orders' = [orders EXCEPT
                      ![slCall'.id].stop_price = orders'[slCall'.id].stop_price,
                      ![slCall'.id].highest_price = orders'[slCall'.id].highest_price]]_vars

\* C37 witness: an Active order without trailing_percent has been evaluated
\* at a fresh price above its watermark and below no take-profit, and the call
\* returned false.
C37_Witness ==
  /\ slCall.op = "check_and_execute"
  /\ slCall.ok
  /\ ~slCall.yes
  /\ orders[slCall.id].trailing_percent = None
  /\ orders[slCall.id].status = "Active"
  /\ QuoteFresh(orders[slCall.id].asset)
  /\ QuotePrice(orders[slCall.id].asset) > orders[slCall.id].highest_price

====
